---- MODULE Spec2Model ----
(***************************************************************************)
(* A model of asleep's command-line pipeline, src/asleep/get_sleep.py:     *)
(* main(), transform_data2model_input(), get_sleep_windows() and           *)
(* get_master_df().  The sleep-window functions of asleep.sleep_windows    *)
(* (imported as sw) are not part of the source at hand; they are modelled  *)
(* from the design document (sections 4.1-4.4) and marked as such.         *)
(*                                                                         *)
(* Arrays are sequences indexed from 1; a block id is the 0-based row      *)
(* index of the sleep block table, as in the code.  Times are seconds.     *)
(***************************************************************************)
EXTENDS Integers, Sequences, FiniteSets, TLC

VARIABLES
    pc,                         \* position of main()
    args,                       \* [force_run, remove_intermediate_files]
    rec,                        \* the recording as parsed and windowed: [t, nw, wp]
    files,                      \* files present in args.outdir
    files0,                     \* history: files present when the run started
    reads,                      \* history: files loaded by this run
    writes,                     \* history: files written by this run
    times,                      \* times (N)
    non_wear,                   \* non_wear (N)
    sleep_prediction,           \* sleep_prediction (N), the content of ssl_sleep.npy
    binary_y,                   \* binary_y (N); sleepnet_output is the same array
    my_df,                      \* my_df after sw.fill_gaps: [label, is_wear]
    all_sleep_wins_df,          \* the sleep block table
    sleep_wins_long_per_day_df, \* the per-night longest-block table
    master_acc,                 \* rows of data2model handed to the second model
    master_npids,               \* block id of each row of master_acc
    y_pred,                     \* the second model's predictions
    test_pids,                  \* block id of each prediction
    block_id,                   \* loop variable of the stitching loop
    predictions_df              \* raw_label column of predictions.csv

vars == <<pc, args, rec, files, files0, reads, writes, times, non_wear,
          sleep_prediction, binary_y, my_df, all_sleep_wins_df,
          sleep_wins_long_per_day_df, master_acc, master_npids, y_pred,
          test_pids, block_id, predictions_df>>

(***************************************************************************)
(* Program constants.                                                      *)
(***************************************************************************)
NON_WEAR_THRESHOLD == 3
NON_WEAR_PREDICTION_FLAG == -1
epoch_length == 30
\* "No sleep windows >30 mins detected": the minimum valid block, in minutes
MIN_SLEEP_BLOCK_MINS == 30
\* label codes of asleep.macros shared by the coarse and the refined labels
WAKE == 0
SLEEP == 1
SECONDS_PER_MINUTE == 60
SECONDS_PER_HOUR == 3600
\* a night runs from noon to noon
NOON == 43200
DAY == 86400

(***************************************************************************)
(* Bounds of the model.                                                    *)
(***************************************************************************)
MaxRuns == 3        \* runs of equal state in a recording (pipeline)
MaxRunsSW == 3      \* runs of equal state in a recording (sleep windows)
MaxEpochs == 3      \* epochs of a series (stitching)
MaxBlocks == 2      \* rows of a sleep block table (stitching)
MaxPreds == 3       \* refined predictions returned (stitching)

(***************************************************************************)
(* Sequence helpers.                                                       *)
(***************************************************************************)
Indices(n) == [i \in 1..n |-> i]

\* the positions 1..n, in order, at which the mask holds: numpy's a[mask]
MaskIdx(n, InMask(_)) == SelectSeq(Indices(n), InMask)

\* the k with pos[k] = i, for a strictly increasing pos that holds i
RECURSIVE RankIn(_, _, _, _)
RankIn(pos, i, lo, hi) ==
    IF lo >= hi THEN lo
    ELSE LET mid == (lo + hi) \div 2
         IN  IF pos[mid] >= i THEN RankIn(pos, i, lo, mid)
             ELSE RankIn(pos, i, mid + 1, hi)

RECURSIVE SeqsUpTo(_, _)
SeqsUpTo(S, n) ==
    IF n = 0 THEN {<<>>}
    ELSE LET shorter == SeqsUpTo(S, n - 1)
         IN  shorter \cup {Append(s, x) : s \in {q \in shorter : Len(q) = n - 1}, x \in S}

(***************************************************************************)
(* asleep.macros and asleep.sleep_windows (sw), after the design document. *)
(***************************************************************************)
\* SLEEPNET_LABELS.get: the coarse detector's code to the shared label code
SLEEPNET_LABELS_get(c) ==
    CASE c = NON_WEAR_PREDICTION_FLAG -> NON_WEAR_PREDICTION_FLAG
      [] c = WAKE -> WAKE
      [] c = SLEEP -> SLEEP

\* 4.1 Block Extractor: maximal runs of constant (label, wear flag), each
\* with its first epoch and its epoch count
find_sleep_block_duration(df) ==
    LET n == Len(df.label)
        IsStart(i) == \/ i = 1
                      \/ df.label[i] # df.label[i - 1]
                      \/ df.is_wear[i] # df.is_wear[i - 1]
        starts == SelectSeq(Indices(n), IsStart)
    IN  [k \in 1..Len(starts) |->
            [first |-> starts[k],
             count |-> (IF k < Len(starts) THEN starts[k + 1] ELSE n + 1) - starts[k],
             label |-> df.label[starts[k]],
             is_wear |-> df.is_wear[starts[k]]]]

\* the minimum-duration rule: longer than MIN_SLEEP_BLOCK_MINS
LongEnough(count) ==
    count * epoch_length > MIN_SLEEP_BLOCK_MINS * SECONDS_PER_MINUTE

\* 4.2 Block Validator: the indices of the sleep blocks that are long enough
find_valid_sleep_blocks(counter) ==
    {k \in 1..Len(counter) :
        /\ counter[k].label = SLEEP
        /\ counter[k].is_wear
        /\ LongEnough(counter[k].count)}

\* a gap rule that also fills a gap of exactly NON_WEAR_THRESHOLD hours
ShortGap_inclusive(count) ==
    count * epoch_length <= NON_WEAR_THRESHOLD * SECONDS_PER_HOUR

\* the gap rule: shorter than NON_WEAR_THRESHOLD hours
ShortGap(count) ==
    count * epoch_length < NON_WEAR_THRESHOLD * SECONDS_PER_HOUR

\* 4.3 Gap Merger, the decision: the wake or non-wear blocks strictly between
\* two valid blocks that are short enough, all decided on the original blocks
find_gaps2fill(valid, counter) ==
    {k \in 1..Len(counter) :
        /\ counter[k].label # SLEEP
        /\ \E a \in valid : a < k
        /\ \E b \in valid : k < b
        /\ ShortGap(counter[k].count)}

\* a rewrite that also marks the filled epochs as worn
fill_gaps_worn(df, counter, gap2fill) ==
    LET InGap(i) == \E k \in gap2fill :
                        /\ counter[k].first <= i
                        /\ i < counter[k].first + counter[k].count
    IN  [df EXCEPT !.label =
            [i \in 1..Len(df.label) |-> IF InGap(i) THEN SLEEP ELSE df.label[i]],
                   !.is_wear =
            [i \in 1..Len(df.label) |-> InGap(i) \/ df.is_wear[i]]]

\* 4.3 Gap Merger, the rewrite: every epoch of a filled gap takes the sleep
\* label; times and wear flags are kept
fill_gaps(df, counter, gap2fill) ==
    LET InGap(i) == \E k \in gap2fill :
                        /\ counter[k].first <= i
                        /\ i < counter[k].first + counter[k].count
    IN  [df EXCEPT !.label =
            [i \in 1..Len(df.label) |-> IF InGap(i) THEN SLEEP ELSE df.label[i]]]

\* the start of the noon-to-noon night that holds time t
NightStart(t) == t - ((t - NOON) % DAY)

\* 4.4 Night Assembler: the valid sleep blocks of the revised series (a run of
\* sleep labels is one block whatever its wear flags), each with its night and
\* the night's wear time, and per night its longest block (the earliest on a tie)
time_series2sleep_blocks(df) ==
    LET n == Len(df.label)
        IsFirst(i) == df.label[i] = SLEEP /\ (i = 1 \/ df.label[i - 1] # SLEEP)
        IsLast(i) == df.label[i] = SLEEP /\ (i = n \/ df.label[i + 1] # SLEEP)
        firsts == SelectSeq(Indices(n), IsFirst)
        lasts == SelectSeq(Indices(n), IsLast)
        IsValid(k) == LongEnough(lasts[k] - firsts[k] + 1)
        valid == SelectSeq(Indices(Len(firsts)), IsValid)
        wins == [j \in 1..Len(valid) |->
                    LET k == valid[j]
                        start == df.time[firsts[k]]
                    IN  [start |-> start,
                         end |-> start + (lasts[k] - firsts[k] + 1) * epoch_length]]
        Night(j) == NightStart(wins[j].start)
        Dur(j) == wins[j].end - wins[j].start
        InNight(i, s) == df.is_wear[i] /\ s <= df.time[i] /\ df.time[i] < s + DAY
        WearTime(s) == LET Worn(i) == InNight(i, s)
                       IN  Len(SelectSeq(Indices(n), Worn)) * epoch_length
        IsLongest(j) == \A o \in 1..Len(wins) :
                            (Night(o) = Night(j) /\ o # j) =>
                                \/ Dur(j) > Dur(o)
                                \/ Dur(j) = Dur(o) /\ wins[j].start < wins[o].start
                                \/ Dur(j) = Dur(o) /\ wins[j].start = wins[o].start /\ j < o
        longest == SelectSeq(Indices(Len(wins)), IsLongest)
    IN  [all_sleep_wins |-> wins,
         sleep_wins_long_per_day |-> [l \in 1..Len(longest) |-> wins[longest[l]]],
         interval_start |-> [j \in 1..Len(wins) |-> Night(j)],
         interval_end |-> [j \in 1..Len(wins) |-> Night(j) + DAY],
         wear_time |-> [j \in 1..Len(wins) |-> WearTime(Night(j))]]

(***************************************************************************)
(* get_sleep.py: the pure parts.                                           *)
(***************************************************************************)
\* a cache test that forgets force_run
files_exist_unforced(fs, a) ==
    /\ "data2model.npy" \in fs
    /\ "times.npy" \in fs
    /\ "non_wear.npy" \in fs

\* transform_data2model_input, lines 97-103
files_exist(fs, a) ==
    /\ "data2model.npy" \in fs
    /\ "times.npy" \in fs
    /\ "non_wear.npy" \in fs
    /\ ~a.force_run

\* get_sleep_windows, line 175: the coarse model is run (and its result saved)
run_ssl(fs, a) == "ssl_sleep.npy" \notin fs \/ a.force_run

\* get_sleep_windows, lines 171-184: -1 everywhere, the detector's class where worn
coarse_prediction(nw, window_pred) ==
    [i \in 1..Len(nw) |-> IF nw[i] THEN NON_WEAR_PREDICTION_FLAG ELSE window_pred[i]]

\* the time filter of lines 365 and 453
time_filter(t, start_t, end_t) == t >= start_t /\ t < end_t

\* get_master_df, lines 449-463: the loop from row `index` on
RECURSIVE get_master_loop(_, _, _, _, _, _)
get_master_loop(block_time_df, ts, acc_array, index, m_acc, m_npids) ==
    IF index >= Len(block_time_df) THEN [master_acc |-> m_acc, master_npids |-> m_npids]
    ELSE LET row == block_time_df[index + 1]
             InFilter(i) == time_filter(ts[i], row.start, row.end)
             pos == MaskIdx(Len(ts), InFilter)
             current_day_acc == [k \in 1..Len(pos) |-> acc_array[pos[k]]]
             day_pid == [k \in 1..Len(pos) |-> index]
         IN  IF Len(m_npids) = 0
             THEN get_master_loop(block_time_df, ts, acc_array, index + 1,
                                  current_day_acc, day_pid)
             ELSE get_master_loop(block_time_df, ts, acc_array, index + 1,
                                  m_acc \o current_day_acc, m_npids \o day_pid)

\* a get_master_df whose time filter takes the block's end as well
RECURSIVE get_master_loop_closed(_, _, _, _, _, _)
get_master_loop_closed(block_time_df, ts, acc_array, index, m_acc, m_npids) ==
    IF index >= Len(block_time_df) THEN [master_acc |-> m_acc, master_npids |-> m_npids]
    ELSE LET row == block_time_df[index + 1]
             InFilter(i) == ts[i] >= row.start /\ ts[i] <= row.end
             pos == MaskIdx(Len(ts), InFilter)
             current_day_acc == [k \in 1..Len(pos) |-> acc_array[pos[k]]]
             day_pid == [k \in 1..Len(pos) |-> index]
         IN  IF Len(m_npids) = 0
             THEN get_master_loop_closed(block_time_df, ts, acc_array, index + 1,
                                         current_day_acc, day_pid)
             ELSE get_master_loop_closed(block_time_df, ts, acc_array, index + 1,
                                         m_acc \o current_day_acc, m_npids \o day_pid)

get_master_df_closed(block_time_df, ts, acc_array) ==
    get_master_loop_closed(block_time_df, ts, acc_array, 0, <<>>, <<>>)

\* get_master_df, lines 444-465
get_master_df(block_time_df, ts, acc_array) ==
    get_master_loop(block_time_df, ts, acc_array, 0, <<>>, <<>>)

\* y_pred[test_pids == block_id], line 368
sleepnet_pred_of(yp, pids, b) ==
    LET Mine(k) == pids[k] = b
        pos == MaskIdx(Len(pids), Mine)
    IN  [k \in 1..Len(pos) |-> yp[pos[k]]]

\* numpy's a[mask] = v takes v of the mask's count, or of one value (repeated)
can_assign(count, v) == Len(v) = count \/ Len(v) = 1

\* sleepnet_output[time_filter] = sleepnet_pred, line 371
mask_assign(a, ts, start_t, end_t, v) ==
    LET InFilter(i) == time_filter(ts[i], start_t, end_t)
        pos == MaskIdx(Len(a), InFilter)
    IN  [i \in 1..Len(a) |->
            IF InFilter(i)
            THEN (IF Len(v) = 1 THEN v[1] ELSE v[RankIn(pos, i, 1, Len(pos))])
            ELSE a[i]]

\* the mask's count of line 365
filter_count(ts, start_t, end_t) ==
    LET InFilter(i) == time_filter(ts[i], start_t, end_t)
    IN  Len(MaskIdx(Len(ts), InFilter))

\* a marking that compares the start with >= and forgets the end
mark_longest_from(df, long_df) ==
    [k \in 1..Len(df) |->
        [start |-> df[k].start, end |-> df[k].end,
         interval_start |-> df[k].interval_start,
         interval_end |-> df[k].interval_end,
         wear_duration_H |-> df[k].wear_duration_H,
         is_longest_block |->
            \E l \in 1..Len(long_df) : df[k].start >= long_df[l].start]]

\* main, lines 416-421: the rows that equal a row of the per-night table
mark_longest(df, long_df) ==
    [k \in 1..Len(df) |->
        [start |-> df[k].start, end |-> df[k].end,
         interval_start |-> df[k].interval_start,
         interval_end |-> df[k].interval_end,
         wear_duration_H |-> df[k].wear_duration_H,
         is_longest_block |->
            \E l \in 1..Len(long_df) :
                df[k].start = long_df[l].start /\ df[k].end = long_df[l].end]]

(***************************************************************************)
(* The inputs: a recording, after parsing and windowing, is a series of    *)
(* runs of epochs the coarse detector calls sleep or wake, or that are     *)
(* non-wear.  Its times start at t0 and, when the windowing misbehaves,    *)
(* carry one defect.                                                       *)
(***************************************************************************)
Run(kind, len) == [kind |-> kind, len |-> len]

RECURSIVE RunSeqs(_, _)
RunSeqs(opts, n) ==
    IF n = 0 THEN {<<>>}
    ELSE LET shorter == RunSeqs(opts, n - 1)
         IN  shorter \cup
             {Append(s, r) : s \in {q \in shorter : Len(q) = n - 1}, r \in opts}

RECURSIVE Expand(_)
Expand(runs) ==
    IF runs = <<>> THEN <<>>
    ELSE [i \in 1..runs[1].len |-> runs[1].kind] \o Expand(Tail(runs))

DistinctNeighbours(runs) ==
    \A k \in 1..(Len(runs) - 1) : runs[k].kind # runs[k + 1].kind

TimeOf(t0, defect, i) ==
    CASE defect = "none" -> t0 + (i - 1) * epoch_length
      [] defect = "duplicate" -> t0 + (IF i = 1 THEN 0 ELSE i - 2) * epoch_length
      [] defect = "swapped" -> t0 + (IF i = 1 THEN 1 ELSE IF i = 2 THEN 0 ELSE i - 1) * epoch_length
      [] defect = "missing" -> t0 + (IF i = 1 THEN 0 ELSE i) * epoch_length

Recording(runs, t0, defect) ==
    LET kinds == Expand(runs)
    IN  [t |-> [i \in 1..Len(kinds) |-> TimeOf(t0, defect, i)],
         nw |-> [i \in 1..Len(kinds) |-> kinds[i] = "nonwear"],
         wp |-> [i \in 1..Len(kinds) |-> IF kinds[i] = "sleep" THEN SLEEP ELSE WAKE]]

Defects == {"none", "duplicate", "swapped", "missing"}

Recordings(opts, maxRuns, starts, defects) ==
    {Recording(runs, t0, d) :
        runs \in {r \in RunSeqs(opts, maxRuns) : DistinctNeighbours(r)},
        t0 \in starts, d \in defects}

\* 22:00 of day 0 and 11:00 of day 1
Evening == 22 * SECONDS_PER_HOUR
Morning == DAY + 11 * SECONDS_PER_HOUR

\* the pipeline's recordings: runs of one epoch and of just over 30 minutes
PipelineRuns ==
    {Run("sleep", 1), Run("sleep", 61), Run("wake", 1), Run("nonwear", 1)}

PipelineRecordings == Recordings(PipelineRuns, MaxRuns, {Evening}, Defects)

Args == [force_run : BOOLEAN, remove_intermediate_files : BOOLEAN]

CacheFiles == {"data2model.npy", "times.npy", "non_wear.npy", "ssl_sleep.npy"}

\* the refined label codes, and the predictions of a second model that
\* returns one prediction per row it was given, under the row's block id
StageCodes == {0, 1, 2}

AlignedPredictions(m) ==
    {[k \in 1..m |-> (k + s) % Cardinality(StageCodes)] : s \in {0, 1}}

(***************************************************************************)
(* main(), step by step.                                                   *)
(***************************************************************************)
InitWith(r, a, f) ==
    /\ pc = "start"
    /\ args = a
    /\ rec = r
    /\ files = f
    /\ files0 = f
    /\ reads = {}
    /\ writes = {}
    /\ times = <<>>
    /\ non_wear = <<>>
    /\ sleep_prediction = <<>>
    /\ binary_y = <<>>
    /\ my_df = [time |-> <<>>, label |-> <<>>, is_wear |-> <<>>]
    /\ all_sleep_wins_df = <<>>
    /\ sleep_wins_long_per_day_df = <<>>
    /\ master_acc = <<>>
    /\ master_npids = <<>>
    /\ y_pred = <<>>
    /\ test_pids = <<>>
    /\ block_id = 0
    /\ predictions_df = [time |-> <<>>, raw_label |-> <<>>]

Init == \E r \in PipelineRecordings, a \in Args, f \in SUBSET CacheFiles :
            InitWith(r, a, f)

\* line 312, get_parsed_data: the recording is read, info.json written
ParseData ==
    /\ pc = "start"
    /\ pc' = "parsed"
    /\ files' = files \cup {"info.json"}
    /\ writes' = writes \cup {"info.json"}
    /\ UNCHANGED <<args, rec, files0, reads, times, non_wear, sleep_prediction,
                   binary_y, my_df, all_sleep_wins_df, sleep_wins_long_per_day_df,
                   master_acc, master_npids, y_pred, test_pids, block_id,
                   predictions_df>>

TransformedFiles == {"data2model.npy", "times.npy", "non_wear.npy"}

\* lines 324-328, transform_data2model_input: the three arrays are loaded when
\* all three files are there and the run is not forced, and else computed and saved
Transform ==
    /\ pc = "parsed"
    /\ pc' = "transformed"
    /\ times' = rec.t
    /\ non_wear' = rec.nw
    /\ IF files_exist(files, args)
       THEN /\ reads' = reads \cup TransformedFiles
            /\ UNCHANGED <<files, writes>>
       ELSE /\ files' = files \cup TransformedFiles
            /\ writes' = writes \cup TransformedFiles
            /\ UNCHANGED reads
    /\ UNCHANGED <<args, rec, files0, sleep_prediction, binary_y, my_df,
                   all_sleep_wins_df, sleep_wins_long_per_day_df, master_acc,
                   master_npids, y_pred, test_pids, block_id, predictions_df>>

\* lines 341-342
RemoveIntermediate ==
    /\ pc = "transformed"
    /\ pc' = "cleaned"
    /\ files' = IF args.remove_intermediate_files
                THEN files \ {"data2model.npy"} ELSE files
    /\ UNCHANGED <<args, rec, files0, reads, writes, times, non_wear,
                   sleep_prediction, binary_y, my_df, all_sleep_wins_df,
                   sleep_wins_long_per_day_df, master_acc, master_npids, y_pred,
                   test_pids, block_id, predictions_df>>

\* get_sleep_windows, lines 170-189: the coarse predictions are computed and
\* saved, or loaded from ssl_sleep.npy
CoarsePredict ==
    /\ pc = "cleaned"
    /\ pc' = "predicted"
    /\ sleep_prediction' = coarse_prediction(non_wear, rec.wp)
    /\ IF run_ssl(files, args)
       THEN /\ files' = files \cup {"ssl_sleep.npy"}
            /\ writes' = writes \cup {"ssl_sleep.npy"}
            /\ UNCHANGED reads
       ELSE /\ reads' = reads \cup {"ssl_sleep.npy"}
            /\ UNCHANGED <<files, writes>>
    /\ UNCHANGED <<args, rec, files0, times, non_wear, binary_y, my_df,
                   all_sleep_wins_df, sleep_wins_long_per_day_df, master_acc,
                   master_npids, y_pred, test_pids, block_id, predictions_df>>

\* the rows of all_sleep_wins_df, lines 212-215 (the wear time kept in seconds)
sleep_wins_rows(b) ==
    [j \in 1..Len(b.all_sleep_wins) |->
        [start |-> b.all_sleep_wins[j].start,
         end |-> b.all_sleep_wins[j].end,
         interval_start |-> b.interval_start[j],
         interval_end |-> b.interval_end[j],
         wear_duration_H |-> b.wear_time[j]]]

\* get_sleep_windows, lines 192-197
labelled_df(ts, sp) ==
    LET y == [i \in 1..Len(sp) |-> SLEEPNET_LABELS_get(sp[i])]
    IN  [time |-> ts, label |-> y,
         is_wear |-> [i \in 1..Len(y) |-> y[i] # NON_WEAR_PREDICTION_FLAG]]

\* get_sleep_windows, lines 200-206: blocks, valid blocks, gaps, the fill
filled_df(df) ==
    LET counter == find_sleep_block_duration(df)
        valid_sleep_block_idxes == find_valid_sleep_blocks(counter)
        gap2fill == find_gaps2fill(valid_sleep_block_idxes, counter)
    IN  fill_gaps(df, counter, gap2fill)

\* get_sleep_windows, lines 191-217: sleep window identification
SleepWindows ==
    /\ pc = "predicted"
    /\ pc' = "blocks"
    /\ LET df == labelled_df(times, sleep_prediction)
           filled == filled_df(df)
           b == time_series2sleep_blocks(filled)
       IN  /\ binary_y' = df.label
           /\ my_df' = filled
           /\ all_sleep_wins_df' = sleep_wins_rows(b)
           /\ sleep_wins_long_per_day_df' = b.sleep_wins_long_per_day
    /\ UNCHANGED <<args, rec, files, files0, reads, writes, times, non_wear,
                   sleep_prediction, master_acc, master_npids, y_pred, test_pids,
                   block_id, predictions_df>>

\* get_sleep_windows, lines 220-221: row i of data2model is modelled by i
MasterDf ==
    /\ pc = "blocks"
    /\ pc' = "windows"
    /\ LET m == get_master_df(all_sleep_wins_df, times, Indices(Len(times)))
       IN  /\ master_acc' = m.master_acc
           /\ master_npids' = m.master_npids
    /\ UNCHANGED <<args, rec, files, files0, reads, writes, times, non_wear,
                   sleep_prediction, binary_y, my_df, all_sleep_wins_df,
                   sleep_wins_long_per_day_df, y_pred, test_pids, block_id,
                   predictions_df>>

\* a test that lets an empty id list through
no_sleep_windows_strict(npids) == Len(npids) < 0

\* line 348
no_sleep_windows(npids) == Len(npids) <= 0

\* lines 348-353: no sleep window, the run ends
ExitEmpty ==
    /\ pc = "windows"
    /\ no_sleep_windows(master_npids)
    /\ pc' = "exit"
    /\ UNCHANGED <<args, rec, files, files0, reads, writes, times, non_wear,
                   sleep_prediction, binary_y, my_df, all_sleep_wins_df,
                   sleep_wins_long_per_day_df, master_acc, master_npids, y_pred,
                   test_pids, block_id, predictions_df>>

\* lines 355-359 with a second model that keeps to its contract
StartSleepNet ==
    /\ pc = "windows"
    /\ ~no_sleep_windows(master_npids)
    /\ pc' = "stitching"
    /\ \E yp \in AlignedPredictions(Len(master_npids)) : y_pred' = yp
    /\ test_pids' = master_npids
    /\ block_id' = 0
    /\ UNCHANGED <<args, rec, files, files0, reads, writes, times, non_wear,
                   sleep_prediction, binary_y, my_df, all_sleep_wins_df,
                   sleep_wins_long_per_day_df, master_acc, master_npids,
                   predictions_df>>

\* lines 361-371, one round of the loop: numpy raises ValueError when the
\* predictions of the block can be neither matched nor repeated
StitchBlock ==
    /\ pc = "stitching"
    /\ block_id < Len(all_sleep_wins_df)
    /\ LET start_t == all_sleep_wins_df[block_id + 1].start
           end_t == all_sleep_wins_df[block_id + 1].end
           sleepnet_pred == sleepnet_pred_of(y_pred, test_pids, block_id)
       IN  IF can_assign(filter_count(times, start_t, end_t), sleepnet_pred)
           THEN /\ binary_y' = mask_assign(binary_y, times, start_t, end_t, sleepnet_pred)
                /\ block_id' = block_id + 1
                /\ pc' = "stitching"
           ELSE /\ pc' = "ValueError"
                /\ UNCHANGED <<binary_y, block_id>>
    /\ UNCHANGED <<args, rec, files, files0, reads, writes, times, non_wear,
                   sleep_prediction, my_df, all_sleep_wins_df,
                   sleep_wins_long_per_day_df, master_acc, master_npids, y_pred,
                   test_pids, predictions_df>>

\* lines 376-407: predictions.csv, one row per epoch
SavePredictions ==
    /\ pc = "stitching"
    /\ block_id >= Len(all_sleep_wins_df)
    /\ pc' = "predictions_saved"
    /\ predictions_df' = [time |-> times, raw_label |-> binary_y]
    /\ files' = files \cup {"predictions.csv"}
    /\ writes' = writes \cup {"predictions.csv"}
    /\ UNCHANGED <<args, rec, files0, reads, times, non_wear, sleep_prediction,
                   binary_y, my_df, all_sleep_wins_df, sleep_wins_long_per_day_df,
                   master_acc, master_npids, y_pred, test_pids, block_id>>

\* lines 416-425: the longest block of each night is marked, sleep_block.csv
MarkLongest ==
    /\ pc = "predictions_saved"
    /\ pc' = "blocks_saved"
    /\ all_sleep_wins_df' = mark_longest(all_sleep_wins_df, sleep_wins_long_per_day_df)
    /\ files' = files \cup {"sleep_block.csv"}
    /\ writes' = writes \cup {"sleep_block.csv"}
    /\ UNCHANGED <<args, rec, files0, reads, times, non_wear, sleep_prediction,
                   binary_y, my_df, sleep_wins_long_per_day_df, master_acc,
                   master_npids, y_pred, test_pids, block_id, predictions_df>>

SummaryFiles == {"day_summary.csv", "summary.json"}

\* lines 428-435: the summaries
Summarize ==
    /\ pc = "blocks_saved"
    /\ pc' = "done"
    /\ files' = files \cup SummaryFiles
    /\ writes' = writes \cup SummaryFiles
    /\ UNCHANGED <<args, rec, files0, reads, times, non_wear, sleep_prediction,
                   binary_y, my_df, all_sleep_wins_df, sleep_wins_long_per_day_df,
                   master_acc, master_npids, y_pred, test_pids, block_id,
                   predictions_df>>

Next ==
    \/ ParseData
    \/ Transform
    \/ RemoveIntermediate
    \/ CoarsePredict
    \/ SleepWindows
    \/ MasterDf
    \/ ExitEmpty
    \/ StartSleepNet
    \/ StitchBlock
    \/ SavePredictions
    \/ MarkLongest
    \/ Summarize

Spec == Init /\ [][Next]_vars

(***************************************************************************)
(* The sleep-window functions at full scale: recordings whose runs lie on  *)
(* both sides of the 30-minute and the 3-hour rule, starting in the        *)
(* evening or shortly before noon, and the two recordings of 4 h of sleep, *)
(* 1 h or 4 h of wake and 4 h of sleep.                                    *)
(***************************************************************************)
SleepWindowRuns ==
    {Run("sleep", 60), Run("sleep", 61), Run("sleep", 120),
     Run("wake", 359), Run("wake", 360),
     Run("nonwear", 1), Run("nonwear", 360)}

SleepWakeSleepRuns(gap) == <<Run("sleep", 480), Run("wake", gap), Run("sleep", 480)>>

SleepWindowRecordings ==
    Recordings(SleepWindowRuns, MaxRunsSW, {Evening, Morning}, {"none"})
        \cup {Recording(SleepWakeSleepRuns(gap), Evening, "none") : gap \in {120, 480}}

InitSW == \E r \in SleepWindowRecordings :
              InitWith(r, [force_run |-> FALSE, remove_intermediate_files |-> FALSE], {})

SpecSW == InitSW /\ [][Next]_vars

(***************************************************************************)
(* get_master_df and the stitching loop on their own: any short series of  *)
(* times, any table of non-overlapping blocks, and a second model that may *)
(* return any predictions under any block ids.                             *)
(***************************************************************************)
TimeGrid == {k * epoch_length : k \in 0..(MaxEpochs - 1)}

Boundaries == {k * epoch_length : k \in 0..MaxEpochs}

BlockRow(start_t, end_t) ==
    [start |-> start_t, end |-> end_t,
     interval_start |-> NightStart(start_t),
     interval_end |-> NightStart(start_t) + DAY,
     wear_duration_H |-> 0]

BlockRows == {BlockRow(ab[1], ab[2]) : ab \in {x \in Boundaries \X Boundaries : x[1] < x[2]}}

Disjoint(tbl) ==
    \A j, k \in 1..Len(tbl) :
        j # k => (tbl[j].end <= tbl[k].start \/ tbl[k].end <= tbl[j].start)

BlockTables == {tbl \in SeqsUpTo(BlockRows, MaxBlocks) : Disjoint(tbl)}

CoarseSeries ==
    {[t |-> ts, y |-> y] :
        ts \in SeqsUpTo(TimeGrid, MaxEpochs),
        y \in SeqsUpTo({NON_WEAR_PREDICTION_FLAG, SLEEP}, MaxEpochs)}

InitAt(series) ==
    \E s \in series, tbl \in BlockTables :
        LET n == Len(s.t)
            nw == [i \in 1..n |-> s.y[i] = NON_WEAR_PREDICTION_FLAG]
        IN  /\ pc = "blocks"
            /\ args = [force_run |-> FALSE, remove_intermediate_files |-> FALSE]
            /\ rec = [t |-> s.t, nw |-> nw, wp |-> [i \in 1..n |-> SLEEP]]
            /\ files = CacheFiles \cup {"info.json"}
            /\ files0 = {}
            /\ reads = {}
            /\ writes = CacheFiles \cup {"info.json"}
            /\ times = s.t
            /\ non_wear = nw
            /\ sleep_prediction = s.y
            /\ binary_y = s.y
            /\ my_df = [time |-> s.t, label |-> s.y, is_wear |-> [i \in 1..n |-> ~nw[i]]]
            /\ all_sleep_wins_df = tbl
            /\ sleep_wins_long_per_day_df = <<>>
            /\ master_acc = <<>>
            /\ master_npids = <<>>
            /\ y_pred = <<>>
            /\ test_pids = <<>>
            /\ block_id = 0
            /\ predictions_df = [time |-> <<>>, raw_label |-> <<>>]

\* any times, in any order
InitMaster == InitAt({c \in CoarseSeries : Len(c.t) = Len(c.y)})

\* strictly increasing times
InitStitch ==
    InitAt({c \in CoarseSeries :
                /\ Len(c.t) = Len(c.y)
                /\ \A i \in 1..(Len(c.t) - 1) : c.t[i] < c.t[i + 1]})

\* what the second model may return: a block id and a label per prediction
AnyPredictions == SeqsUpTo((0..(MaxBlocks - 1)) \X {1, 2}, MaxPreds)

\* lines 355-359 with a second model that returns anything
StartSleepNetAny ==
    /\ pc = "windows"
    /\ ~no_sleep_windows(master_npids)
    /\ pc' = "stitching"
    /\ \E out \in AnyPredictions :
        /\ test_pids' = [k \in 1..Len(out) |-> out[k][1]]
        /\ y_pred' = [k \in 1..Len(out) |-> out[k][2]]
    /\ block_id' = 0
    /\ UNCHANGED <<args, rec, files, files0, reads, writes, times, non_wear,
                   sleep_prediction, binary_y, my_df, all_sleep_wins_df,
                   sleep_wins_long_per_day_df, master_acc, master_npids,
                   predictions_df>>

NextStitch ==
    \/ MasterDf
    \/ ExitEmpty
    \/ StartSleepNetAny
    \/ StitchBlock
    \/ SavePredictions

SpecStitch == InitStitch /\ [][NextStitch]_vars

SpecMaster == InitMaster /\ [][MasterDf]_vars

(***************************************************************************)
(* Properties.  What they say is stated on the recording and on the        *)
(* program's variables, not through the functions above.                   *)
(***************************************************************************)
\* the run has extracted the sleep blocks
Extracted ==
    pc \in {"blocks", "windows", "exit", "stitching", "ValueError",
            "predictions_saved", "blocks_saved", "done"}

\* the coarse label of epoch i before gap filling and stitching
CoarseLabel(i) == IF rec.nw[i] THEN NON_WEAR_PREDICTION_FLAG ELSE rec.wp[i]

NEpochs == Len(rec.t)

\* the maximal runs of equal coarse label, as <<first, last>>
CoarseRuns ==
    LET starts == {i \in 1..NEpochs : i = 1 \/ CoarseLabel(i) # CoarseLabel(i - 1)}
        ends == {i \in 1..NEpochs : i = NEpochs \/ CoarseLabel(i) # CoarseLabel(i + 1)}
    IN  {<<a, CHOOSE e \in ends : e >= a /\ \A f \in ends : f >= a => e <= f>> : a \in starts}

RunSeconds(r) == (r[2] - r[1] + 1) * 30

\* a sleep run of more than 30 minutes
ValidSleepRun(r) == CoarseLabel(r[1]) = SLEEP /\ RunSeconds(r) > 30 * 60

BetweenValid(r, runs) ==
    /\ \E v \in runs : ValidSleepRun(v) /\ v[2] < r[1]
    /\ \E v \in runs : ValidSleepRun(v) /\ r[2] < v[1]

Relabelled(r) == \A i \in r[1]..r[2] : my_df.label[i] = SLEEP

Untouched(r) == \A i \in r[1]..r[2] : my_df.label[i] = CoarseLabel(i)

\* 4 h of sleep, then `gap` epochs of wake, then 4 h of sleep
SleepWakeSleep(gap) ==
    /\ NEpochs = 480 + gap + 480
    /\ \A i \in 1..NEpochs :
        /\ ~rec.nw[i]
        /\ rec.wp[i] = (IF i \in 481..(480 + gap) THEN WAKE ELSE SLEEP)

\* get_sleep_windows has just returned from the sw calls (line 217)
Filled == pc = "blocks"

\* C4: a wake or non-wear block is relabelled to sleep iff it lies strictly
\* between two valid sleep blocks and is shorter than 3 hours (a block of exactly
\* 3 hours, or before the first or after the last valid block, is untouched);
\* 4h sleep / 1h wake / 4h sleep gives one block of 9 h, and 4h sleep / 4h wake
\* / 4h sleep gives two blocks of 4 h.
C4_GapMerger ==
    Filled =>
        /\ LET runs == CoarseRuns
           IN  \A r \in runs :
                CoarseLabel(r[1]) # SLEEP =>
                    IF BetweenValid(r, runs) /\ RunSeconds(r) < 3 * 3600
                    THEN Relabelled(r) ELSE Untouched(r)
        /\ SleepWakeSleep(120) =>
            /\ Len(all_sleep_wins_df) = 1
            /\ all_sleep_wins_df[1].end - all_sleep_wins_df[1].start = 9 * 3600
        /\ SleepWakeSleep(480) =>
            /\ Len(all_sleep_wins_df) = 2
            /\ \A k \in 1..2 :
                all_sleep_wins_df[k].end - all_sleep_wins_df[k].start = 4 * 3600

\* a gap of one epoch less than 3 hours was filled between two valid blocks
C4_Witness ==
    /\ Filled
    /\ LET runs == CoarseRuns
       IN  \E r \in runs :
            /\ CoarseLabel(r[1]) # SLEEP
            /\ RunSeconds(r) = 3 * 3600 - 30
            /\ BetweenValid(r, runs)
            /\ Relabelled(r)

\* C5: gap filling only relabels: the series after fill_gaps has the same
\* number of epochs, the same timestamps and the same wear flags as before, every
\* epoch of a filled gap has the sleep label and every other label is unchanged.
C5_RelabelOnly ==
    Filled =>
        /\ Len(my_df.label) = NEpochs
        /\ my_df.time = rec.t
        /\ my_df.is_wear = [i \in 1..NEpochs |-> ~rec.nw[i]]
        /\ \A r \in CoarseRuns :
            \/ Untouched(r)
            \/ CoarseLabel(r[1]) # SLEEP /\ Relabelled(r)

\* a non-wear gap was filled
C5_Witness ==
    /\ Filled
    /\ \E i \in 1..NEpochs :
        rec.nw[i] /\ my_df.label[i] = SLEEP /\ ~my_df.is_wear[i]

Marked == pc \in {"blocks_saved", "done"}

RowSeconds(k) == all_sleep_wins_df[k].end - all_sleep_wins_df[k].start

SameNight(j, k) ==
    all_sleep_wins_df[j].interval_start = all_sleep_wins_df[k].interval_start

\* C6: in the final sleep block table every night with a sleep block has
\* exactly one row marked is_longest_block, no block of the night is longer than
\* it, and among the longest blocks of the night it starts first.
C6_LongestBlock ==
    Marked =>
        \A k \in 1..Len(all_sleep_wins_df) :
            /\ Cardinality({j \in 1..Len(all_sleep_wins_df) :
                    SameNight(j, k) /\ all_sleep_wins_df[j].is_longest_block}) = 1
            /\ all_sleep_wins_df[k].is_longest_block =>
                \A j \in 1..Len(all_sleep_wins_df) :
                    (SameNight(j, k) /\ j # k) =>
                        \/ RowSeconds(j) < RowSeconds(k)
                        \/ /\ RowSeconds(j) = RowSeconds(k)
                           /\ all_sleep_wins_df[k].start < all_sleep_wins_df[j].start

\* two blocks of one night are equally long, and the first is the marked one
C6_Witness ==
    /\ Marked
    /\ \E j, k \in 1..Len(all_sleep_wins_df) :
        /\ j # k
        /\ SameNight(j, k)
        /\ RowSeconds(j) = RowSeconds(k)
        /\ all_sleep_wins_df[j].start < all_sleep_wins_df[k].start
        /\ all_sleep_wins_df[j].is_longest_block
        /\ ~all_sleep_wins_df[k].is_longest_block

OutputFiles == {"predictions.csv", "sleep_block.csv", "day_summary.csv", "summary.json"}

Saved == pc \in {"predictions_saved", "blocks_saved", "done"}

\* C7: the saved predictions hold one entry per epoch, and the label of every
\* non-wear epoch is -1, also inside a filled gap.
C7_NonWearFlag ==
    Saved =>
        /\ Len(predictions_df.raw_label) = NEpochs
        /\ \A i \in 1..NEpochs :
            rec.nw[i] => predictions_df.raw_label[i] = -1

Transformed == pc \notin {"start", "parsed"}

Predicted == pc \notin {"start", "parsed", "transformed", "cleaned"}

\* C8: with force_run no cached array is read and all four are recomputed and
\* written; without it the three transformed arrays are loaded exactly when all
\* three files were there (and else all recomputed and written), and the coarse
\* predictions are loaded exactly when ssl_sleep.npy was there.
C8_ForceRecompute ==
    /\ (Transformed /\ args.force_run) =>
            reads \cap TransformedFiles = {} /\ TransformedFiles \subseteq writes
    /\ (Predicted /\ args.force_run) =>
            "ssl_sleep.npy" \notin reads /\ "ssl_sleep.npy" \in writes
    /\ (Transformed /\ ~args.force_run) =>
            IF TransformedFiles \subseteq files0
            THEN TransformedFiles \subseteq reads /\ writes \cap TransformedFiles = {}
            ELSE reads \cap TransformedFiles = {} /\ TransformedFiles \subseteq writes
    /\ (Predicted /\ ~args.force_run) =>
            /\ "ssl_sleep.npy" \in reads <=> "ssl_sleep.npy" \in files0
            /\ "ssl_sleep.npy" \in writes <=> "ssl_sleep.npy" \notin files0

\* a forced run over a full cache has ended
C8_Witness ==
    /\ pc = "done"
    /\ args.force_run
    /\ files0 = CacheFiles
    /\ CacheFiles \subseteq writes

UniformTimes(ts) == \A i \in 1..(Len(ts) - 1) : ts[i + 1] = ts[i] + 30

\* C9: when the timestamps are not strictly increasing in steps of one epoch,
\* the run fails before any block is extracted and writes no output.
C9_InputContract ==
    (Transformed /\ ~UniformTimes(times)) =>
        /\ ~Extracted
        /\ writes \cap OutputFiles = {}

\* epoch i lies in the block of id b
InBlock(i, b) ==
    /\ all_sleep_wins_df[b + 1].start <= times[i]
    /\ times[i] < all_sleep_wins_df[b + 1].end

BlockIds == 0..(Len(all_sleep_wins_df) - 1)

EpochsOf(b) == {i \in 1..Len(times) : InBlock(i, b)}

PredsOf(b) == {p \in 1..Len(test_pids) : test_pids[p] = b}

\* the position of epoch i among the epochs of block b
PlaceIn(i, b) == Cardinality({j \in EpochsOf(b) : j <= i})

\* the r-th prediction that carries block id b, if any
RefinedAt(b, r) ==
    {y_pred[p] : p \in {q \in PredsOf(b) : Cardinality({o \in PredsOf(b) : o <= q}) = r}}

\* C1: after the stitching loop, an epoch in no block keeps its coarse label,
\* and an epoch in block i has the refined prediction of block id i at the same
\* position within the block.
C1_Stitched ==
    Saved =>
        \A i \in 1..Len(times) :
            IF \A b \in BlockIds : ~InBlock(i, b)
            THEN binary_y[i] = CoarseLabel(i)
            ELSE \A b \in BlockIds :
                    InBlock(i, b) => RefinedAt(b, PlaceIn(i, b)) = {binary_y[i]}

Mismatch(b) == Cardinality(PredsOf(b)) # Cardinality(EpochsOf(b))

\* C2: a block whose number of refined predictions differs from its number of
\* epochs stops the stitching with an error: the loop never gets past it, and
\* none of its epochs is overwritten.
C2_AlignmentMismatch ==
    pc \in {"stitching", "ValueError", "predictions_saved"} =>
        \A b \in BlockIds :
            Mismatch(b) =>
                /\ block_id <= b
                /\ \A i \in EpochsOf(b) : binary_y[i] = CoarseLabel(i)

Increasing(ts) == \A i \in 1..(Len(ts) - 1) : ts[i] < ts[i + 1]

\* C10: get_master_df returns, for each row index i of the table, as many ids
\* equal to i as there are epochs with start_i <= time < end_i, the ids in
\* ascending order, the data rows in the order of the ids and within a block in
\* the order of the series (chronological), and as many data rows as ids.
C10_MasterDf ==
    pc = "windows" =>
        /\ Len(master_acc) = Len(master_npids)
        /\ \A b \in BlockIds :
            Cardinality({p \in 1..Len(master_npids) : master_npids[p] = b})
                = Cardinality(EpochsOf(b))
        /\ \A p \in 1..Len(master_npids) :
            /\ master_npids[p] \in BlockIds
            /\ master_acc[p] \in EpochsOf(master_npids[p])
        /\ \A p, q \in 1..Len(master_npids) :
            p < q =>
                /\ master_npids[p] <= master_npids[q]
                /\ master_npids[p] = master_npids[q] =>
                    /\ master_acc[p] < master_acc[q]
                    /\ Increasing(times) => times[master_acc[p]] < times[master_acc[q]]

\* two blocks, the first of two epochs, were mapped
C10_Witness ==
    /\ pc = "windows"
    /\ Len(all_sleep_wins_df) = 2
    /\ Cardinality(EpochsOf(0)) = 2
    /\ Cardinality(EpochsOf(1)) = 1
    /\ master_npids = <<0, 0, 1>>

====
